---------------------------- MODULE Spec2Model ----------------------------
(***************************************************************************)
(* A model of python-vendor: the artifact filename parser (PackageInfo),   *)
(* the S3 publisher (upload_artifact), the vend request handler with its   *)
(* staging directories, and the CloudFormation stack orchestrator          *)
(* (VendorService).                                                        *)
(*                                                                         *)
(* Text is modelled as a sequence of one-character strings, so that the    *)
(* regular expressions and the key formatting act on characters.           *)
(***************************************************************************)
EXTENDS Integers, Sequences, FiniteSets, TLC

VARIABLES
    rev,        \* the revision of the service that runs: handler.py or lambdavendor.py
    fname,      \* parser: the filename handed to PackageInfo.parse
    parsed,     \* parser: the result of PackageInfo.parse, or NotParsed
    wheel,      \* parser: the fields the wheel filename was composed of
    bucket,     \* S3: key -> content of the stored object, or NoObject
    uploads,    \* S3: key -> number of upload_file invocations
    calls,      \* the upload_artifact calls made so far, oldest first
    dirs,       \* filesystem: the staging directories that exist
    made,       \* filesystem: number of mkdtemp calls so far
    vpc,        \* vend: position of the handler
    vreq,       \* vend: the request being handled
    vdir,       \* vend: the staging directory of the running request
    vfiles,     \* vend: the downloaded files not yet processed
    vkeys,      \* vend: the keys collected so far
    vbuilds,    \* vend: the source keys build_wheel was called for
    vresp,      \* vend: the outcome of the last finished request
    live,       \* CloudFormation: stack name -> live description or Absent
    cache,      \* VendorService._describe_cache
    queries,    \* number of client.describe_stacks calls so far
    cmds,       \* the aws cloudformation commands run so far
    last,       \* the last VendorService operation and its outcome
    routes,     \* apiproxy.routes: route -> the function registered for it
    handled,    \* apiproxy: the last event dispatched and what came of it
    descr,      \* parse_stack_outputs: the description it is called with
    mapping     \* parse_stack_outputs: the mapping it returned

vars == <<rev, fname, parsed, wheel, bucket, uploads, calls, dirs, made, vpc,
          vreq, vdir, vfiles, vkeys, vbuilds, vresp, live, cache, queries, cmds,
          last, routes, handled, descr, mapping>>

parseVars == <<fname, parsed, wheel>>
storeVars == <<bucket, uploads, calls>>
vendVars  == <<dirs, made, vpc, vreq, vdir, vfiles, vkeys, vbuilds, vresp>>
stackVars == <<live, cache, queries, cmds, last>>
proxyVars == <<routes, handled>>
outputVars == <<descr, mapping>>

-----------------------------------------------------------------------------
(* Characters and text                                                     *)

\* Python's None; no text equals it, since every element of a text is one character.
None == <<"None">>

HYPHEN == "-"
DOT    == "."
SLASH  == "/"

Digits == {"0", "1", "2", "3", "4", "5", "6", "7", "8", "9"}

LowChars == <<"-", ".", "/", "0", "1", "2", "3", "4", "5", "6", "7", "8", "9">>
Letters  == <<"a", "b", "c", "d", "e", "f", "g", "h", "i", "j", "k", "l", "m",
              "n", "o", "p", "q", "r", "s", "t", "u", "v", "w", "x", "y", "z">>

\* The code point of a character (the order sorted() compares strings by).
Ord(c) ==
    IF \E i \in 1..Len(LowChars) : LowChars[i] = c
    THEN 44 + (CHOOSE i \in 1..Len(LowChars) : LowChars[i] = c)
    ELSE IF c = "_" THEN 95
    ELSE IF c = "+" THEN 43
    ELSE IF c = "{" THEN 123
    ELSE IF c = "}" THEN 125
    ELSE 96 + (CHOOSE i \in 1..Len(Letters) : Letters[i] = c)

\* s < t in Python's string order.
StrLess(s, t) ==
    \E i \in 1..(Len(t)) :
        /\ \A j \in 1..(i - 1) : j <= Len(s) /\ s[j] = t[j]
        /\ \/ i = Len(s) + 1
           \/ i <= Len(s) /\ Ord(s[i]) < Ord(t[i])

\* Whether text p occurs in s at position i.
IsPrefixAt(s, i, p) ==
    /\ i >= 1
    /\ i + Len(p) - 1 <= Len(s)
    /\ SubSeq(s, i, i + Len(p) - 1) = p

\* str.split(sep) for a one-character separator: the pieces, in order.
RECURSIVE Split(_, _)
Split(s, sep) ==
    IF \A k \in 1..Len(s) : s[k] # sep
    THEN <<s>>
    ELSE LET k == CHOOSE k \in 1..Len(s) :
                      s[k] = sep /\ \A j \in 1..(k - 1) : s[j] # sep
         IN  <<SubSeq(s, 1, k - 1)>> \o Split(SubSeq(s, k + 1, Len(s)), sep)

SeqToSet(q) == {q[i] : i \in 1..Len(q)}

-----------------------------------------------------------------------------
(* PackageInfo: the artifact filename parser                               *)

TAR_BZ == <<".", "t", "a", "r", ".", "b", "z">>
TAR_GZ == <<".", "t", "a", "r", ".", "g", "z">>
TAR_XZ == <<".", "t", "a", "r", ".", "x", "z">>
ZIP    == <<".", "z", "i", "p">>
WHL    == <<".", "w", "h", "l">>

\* The alternatives of src_re's ext group, \.tar\.[bgx]z|\.zip, in order.
SrcExts == <<TAR_BZ, TAR_GZ, TAR_XZ, ZIP>>
\* The alternatives of whl_re's ext group, \.whl.
WhlExts == <<WHL>>

NoMatch == [matched |-> FALSE]

\* The first alternative of exts that occurs in s at position p.
ExtAt(s, p, exts) ==
    exts[CHOOSE i \in 1..Len(exts) :
             /\ IsPrefixAt(s, p, exts[i])
             /\ \A j \in 1..(i - 1) : ~IsPrefixAt(s, p, exts[j])]

\* "[^-]+" followed by an ext group, matched inside one hyphen-free segment:
\* the greedy "[^-]+" first takes the whole segment and gives characters
\* back until an alternative of ext matches, so the split is at the last
\* position p >= 2 where one occurs.  0 when there is none.
TailSplit(seg, exts) ==
    LET ps == {p \in 2..Len(seg) :
                   \E i \in 1..Len(exts) : IsPrefixAt(seg, p, exts[i])}
    IN  IF ps = {} THEN 0 ELSE CHOOSE p \in ps : \A q \in ps : q <= p

\* A source pattern whose version group runs to the end of its segment.
src_re_whole_segment(filename) ==
    LET segs == Split(filename, HYPHEN)
    IN  IF Len(segs) < 2 \/ segs[1] = <<>> THEN NoMatch
        ELSE LET p == TailSplit(segs[2], SrcExts)
             IN  IF p = 0 THEN NoMatch
                 ELSE [matched      |-> TRUE,
                       distribution |-> segs[1],
                       version      |-> segs[2],
                       ext          |-> ExtAt(segs[2], p, SrcExts)]

\* src_re.match(filename): a match of a prefix of the filename.  Every
\* "[^-]+" that a "-" follows is a whole segment between hyphens.
src_re(filename) ==
    LET segs == Split(filename, HYPHEN)
    IN  IF Len(segs) < 2 \/ segs[1] = <<>> THEN NoMatch
        ELSE LET p == TailSplit(segs[2], SrcExts)
             IN  IF p = 0 THEN NoMatch
                 ELSE [matched      |-> TRUE,
                       distribution |-> segs[1],
                       version      |-> SubSeq(segs[2], 1, p - 1),
                       ext          |-> ExtAt(segs[2], p, SrcExts)]

\* The groups of whl_re from segment k on: python, abi, platform and ext.
WhlTail(segs, k) ==
    IF \/ Len(segs) < k + 2
       \/ segs[k] = <<>>
       \/ segs[k + 1] = <<>>
    THEN NoMatch
    ELSE LET p == TailSplit(segs[k + 2], WhlExts)
         IN  IF p = 0 THEN NoMatch
             ELSE [matched  |-> TRUE,
                   python   |-> segs[k],
                   abi      |-> segs[k + 1],
                   platform |-> SubSeq(segs[k + 2], 1, p - 1),
                   ext      |-> ExtAt(segs[k + 2], p, WhlExts)]

\* Whether segment seg matches the build group, \d[^-]*.
IsBuildSeg(seg) == Len(seg) >= 1 /\ seg[1] \in Digits

\* whl_re.match(filename): the optional build group is tried first, and
\* given up when the rest of the pattern does not match after it.
whl_re(filename) ==
    LET segs == Split(filename, HYPHEN)
    IN  IF Len(segs) < 3 \/ segs[1] = <<>> \/ segs[2] = <<>> THEN NoMatch
        ELSE LET withBuild == IF IsBuildSeg(segs[3]) THEN WhlTail(segs, 4)
                              ELSE NoMatch
                 noBuild   == WhlTail(segs, 3)
             IN  IF withBuild.matched
                 THEN [matched      |-> TRUE,
                       distribution |-> segs[1],
                       version      |-> segs[2],
                       build        |-> segs[3],
                       python       |-> withBuild.python,
                       abi          |-> withBuild.abi,
                       platform     |-> withBuild.platform,
                       ext          |-> withBuild.ext]
                 ELSE IF noBuild.matched
                 THEN [matched      |-> TRUE,
                       distribution |-> segs[1],
                       version      |-> segs[2],
                       build        |-> None,
                       python       |-> noBuild.python,
                       abi          |-> noBuild.abi,
                       platform     |-> noBuild.platform,
                       ext          |-> noBuild.ext]
                 ELSE NoMatch

\* python_tags of an artifact without a python group.
NoTags == {None}

\* PackageInfo.__init__.
PackageInfo(distribution, version, ext, build, python, abi, platform) ==
    [error         |-> FALSE,
     distribution  |-> distribution,
     version       |-> version,
     build_tag     |-> build,
     python_tags   |-> IF python # <<>> THEN SeqToSet(Split(python, DOT))
                       ELSE NoTags,
     abi_tags      |-> SeqToSet(Split(abi, DOT)),
     platform_tags |-> SeqToSet(Split(platform, DOT)),
     ext           |-> ext]

\* The raised ParseError.
ParseError == [error |-> TRUE]

\* PackageInfo.parse: src_re is tried first, then whl_re; the groups a
\* pattern does not have take __init__'s defaults.
parse(filename) ==
    LET s == src_re(filename)
        w == whl_re(filename)
    IN  IF s.matched
        THEN PackageInfo(s.distribution, s.version, s.ext, <<>>, <<>>,
                         <<"n", "o", "n", "e">>, <<"a", "n", "y">>)
        ELSE IF w.matched
        THEN PackageInfo(w.distribution, w.version, w.ext, w.build,
                         w.python, w.abi, w.platform)
        ELSE ParseError

is_src(info) == info.ext # WHL
is_whl(info) == info.ext = WHL

-----------------------------------------------------------------------------
(* The filenames the parser is run on                                      *)

\* The number of hyphen-separated segments of a generated filename.
MaxSegs == 5

\* The extension of a bzip2 archive, which src_re matches up to its "z".
TAR_BZ2 == <<".", "t", "a", "r", ".", "b", "z", "2">>

\* The segments generated filenames are made of: plain and digit-led runs,
\* the empty run, and runs that hold a recognized extension.
SegPool ==
    { <<"a">>, <<"1">>, <<>>,
      <<"1">> \o ZIP, ZIP, <<"2">> \o TAR_GZ, <<"2">> \o TAR_BZ2,
      <<"x">> \o WHL }

RECURSIVE NamesOf(_)
NamesOf(n) ==
    IF n = 1 THEN SegPool
    ELSE {x \o <<HYPHEN>> \o seg : x \in NamesOf(n - 1), seg \in SegPool}

NotParsed == [error |-> FALSE, pending |-> TRUE]

\* No wheel filename has been composed.
NoWheel == [pending |-> TRUE]

\* The fields wheel filenames are composed of: the tags of a set in the
\* order they are joined; a version that holds a source extension; a first
\* python tag that begins with a digit.
WheelDistributions == {<<"a">>, <<"b", "2">>}
WheelVersions == {<<"1">>, <<"1", ".", "0">>, <<"1">> \o ZIP}
WheelBuilds == {None, <<"1">>, <<"2", "b">>}
WheelPythons == {<<<<"p", "y", "2">>, <<"p", "y", "3">>>>, <<<<"3">>>>}
WheelAbis == {<<<<"n", "o", "n", "e">>>>, <<<<"c">>, <<"d">>>>}
WheelPlatforms == {<<<<"a", "n", "y">>>>, <<<<"x">>, <<"y">>>>}

WheelFields ==
    [distribution : WheelDistributions, version : WheelVersions,
     build : WheelBuilds, python : WheelPythons, abi : WheelAbis,
     platform : WheelPlatforms]

\* The tags of a set joined by dots.
RECURSIVE Join(_)
Join(tags) ==
    IF Len(tags) = 1 THEN tags[1]
    ELSE tags[1] \o <<DOT>> \o Join(Tail(tags))

\* The wheel filename of the fields w,
\* <distribution>-<version>[-<build>]-<python>-<abi>-<platform>.whl.
WheelName(w) ==
    w.distribution \o <<HYPHEN>> \o w.version
        \o (IF w.build = None THEN <<>> ELSE <<HYPHEN>> \o w.build)
        \o <<HYPHEN>> \o Join(w.python) \o <<HYPHEN>> \o Join(w.abi)
        \o <<HYPHEN>> \o Join(w.platform) \o WHL

-----------------------------------------------------------------------------
(* The object store and upload_artifact                                    *)

Revisions == {"handler", "lambdavendor"}

\* The artifacts that are published: a source archive and a wheel of one
\* distribution, and a source archive of another (a-1.zip,
\* a-1-py-none-any.whl, b-2.tar.gz).
SRC_A == <<"a", "-", "1">> \o ZIP
WHL_A == <<"a", "-", "1", "-", "p", "y", "-", "n", "o", "n", "e", "-",
           "a", "n", "y">> \o WHL
SRC_B == <<"b", "-", "2">> \o TAR_GZ

\* The contents a local file or a stored object can have.
Contents == {"c1", "c2"}
NoObject == "absent"

\* The key format of upload_artifact, '{info.distribution}/{filename}'.
KeyOf(info, filename) == info.distribution \o <<SLASH>> \o filename

\* What obj.load() can do: return (the object exists), raise ClientError
\* with code 404 (it does not), raise ClientError with another code
\* (403: no permission), or raise an error that is no ClientError (the
\* connection failed).
LoadOutcomes(b, key) ==
    (IF b[key] # NoObject THEN {"found"} ELSE {"notfound"})
        \cup {"denied", "transport"}

\* The outcomes of obj.load() that raise botocore's ClientError.
ClientErrors == {"notfound", "denied"}

\* What obj.upload_file() can do: store the file, or raise.
PutOutcomes == {"ok", "fail"}

\* handler.py upload_artifact: whether the existence probe runs.
HandlerProbes(overwrite) == ~overwrite

\* A forced publish that uploads only what the probe misses.
HandlerUploadsMissed(overwrite, load) == load \in ClientErrors

\* handler.py upload_artifact: whether upload_file is called, given the
\* outcome of the probe ("none" when it did not run).
HandlerUploads(overwrite, load) == overwrite \/ load \in ClientErrors

\* lambdavendor.py upload_artifact: the bare except takes every error of the
\* probe for "not there".
LambdaProbes(overwrite) == ~overwrite
LambdaUploads(overwrite, load) == overwrite \/ load \in {"notfound", "denied", "transport"}

Probes(r, overwrite) ==
    IF r = "handler" THEN HandlerProbes(overwrite) ELSE LambdaProbes(overwrite)
Uploads(r, overwrite, load) ==
    IF r = "handler" THEN HandlerUploads(overwrite, load)
    ELSE LambdaUploads(overwrite, load)

\* The environment's answers to one upload_artifact call.
StoreAnswers(r, b, key, overwrite) ==
    {a \in [load : {"none", "found", "notfound", "denied", "transport"},
            put  : {"none", "ok", "fail"}] :
        /\ a.load \in (IF Probes(r, overwrite) THEN LoadOutcomes(b, key)
                       ELSE {"none"})
        /\ a.put \in (IF Uploads(r, overwrite, a.load) THEN PutOutcomes
                      ELSE {"none"})}

\* Whether upload_artifact returns under the answers a: the upload it makes
\* succeeds, or it makes none because the probe found the object.  Any
\* other error raised by the probe or the upload leaves the function.
Returns(r, overwrite, a) ==
    IF Uploads(r, overwrite, a.load) THEN a.put = "ok" ELSE a.load = "found"

\* PackageArtifact.__init__: the filename of the path and what it parses to
\* (lambdavendor.py parses the filename inside upload_artifact instead).
PackageArtifact(filename) == [filename |-> filename, info |-> parse(filename)]

\* upload_artifact of revision r on bucket b and upload counters u, for the
\* artifact whose local file has content `content`, under the answers `a`:
\* the new bucket and counters, and the record of the call.
upload_artifact(r, b, u, artifact, content, overwrite, a) ==
    LET key  == KeyOf(artifact.info, artifact.filename)
        up   == Uploads(r, overwrite, a.load)
        okay == Returns(r, overwrite, a)
    IN[bucket  |-> IF up /\ a.put = "ok" THEN [b EXCEPT ![key] = content]
                     ELSE b,
         uploads |-> IF up THEN [u EXCEPT ![key] = @ + 1] ELSE u,
         call    |-> [filename  |-> artifact.filename,
                      content   |-> content,
                      key       |-> key,
                      overwrite |-> overwrite,
                      existed   |-> b[key] # NoObject,
                      load      |-> a.load,
                      put       |-> a.put,
                      result    |-> IF okay THEN "returned" ELSE "raised",
                      error     |-> IF okay THEN "none"
                                    ELSE IF up THEN "upload_failed"
                                    ELSE "probe_failed"]]

-----------------------------------------------------------------------------
(* Staging directories and the vend handler of handler.py                  *)

\* The number of vend requests handled.
MaxRequests == 2
\* The number of files one pip download leaves in the staging directory.
MaxFiles == 2

\* m-p-1.zip: a name neither pattern matches (a hyphen in the distribution).
BAD_NAME == <<"m", "-", "p", "-", "1">> \o ZIP

PackageFiles == {SRC_A, WHL_A, SRC_B}
VendFiles    == PackageFiles \cup {BAD_NAME}

\* The artifact of each file, made once.
ArtifactOf == [f \in VendFiles |-> PackageArtifact(f)]

StoreKeys == {KeyOf(ArtifactOf[f].info, f) : f \in PackageFiles}

\* What pip download can leave in the staging directory.
Listings == {l \in SUBSET VendFiles : Cardinality(l) \in 1..MaxFiles}

\* The content of a file pip downloads.
Downloaded == "c1"

\* tempdir(): what is left of the directories ds when the with-block of
\* directory d is left, by an exception (raised) or normally.  The rmtree
\* call follows the yield, so it runs only when the block ends normally.
tempdir_exit(ds, d, raised) == IF raised THEN ds ELSE ds \ {d}

\* sorted(): an insertion sort by Python's string order.
RECURSIVE Insert(_, _)
Insert(q, x) ==
    IF q = <<>> THEN <<x>>
    ELSE IF StrLess(x, Head(q)) THEN <<x>> \o q
    ELSE <<Head(q)>> \o Insert(Tail(q), x)

RECURSIVE sorted(_)
sorted(q) == IF q = <<>> THEN <<>> ELSE Insert(sorted(Tail(q)), Head(q))

\* A vend request that passes the keys on as they were collected.
VendResultUnsorted(keys) ==
    [status |-> "returned", error |-> "none", artifacts |-> keys]

\* The value vend returns ('artifacts': sorted(keys)).
VendResult(keys) ==
    [status |-> "returned", error |-> "none", artifacts |-> sorted(keys)]

VendError(err) == [status |-> "raised", error |-> err, artifacts |-> <<>>]
NoResponse == [status |-> "none", error |-> "none", artifacts |-> <<>>]
NoRequest == [files |-> {}, rebuild |-> FALSE, minimal |-> FALSE]

\* vend is called: download_packages makes the staging directory and runs
\* pip download in it.
VendStart ==
    /\ rev = "handler"
    /\ vpc = "idle"
    /\ made < MaxRequests
    /\ \E listing \in Listings, rebuild \in BOOLEAN, minimal \in BOOLEAN,
          pip \in {"ok", "fail"} :
        /\ made' = made + 1
        /\ vreq' = [files |-> listing, rebuild |-> rebuild, minimal |-> minimal]
        /\ vkeys' = <<>>
        /\ vbuilds' = <<>>
        /\ IF pip = "ok"
           THEN /\ dirs' = dirs \cup {made + 1}
                /\ vdir' = made + 1
                /\ vfiles' = listing
                /\ vpc' = "files"
                /\ vresp' = NoResponse
           ELSE /\ dirs' = tempdir_exit(dirs \cup {made + 1}, made + 1, TRUE)
                /\ vdir' = 0
                /\ vfiles' = {}
                /\ vpc' = "idle"
                /\ vresp' = VendError("CalledProcessError")
    /\ UNCHANGED <<rev, proxyVars, outputVars, parseVars, storeVars, stackVars>>

\* vend's test for launching a build, artifact.info.is_src().
Builds(info) == is_src(info)

\* The environment's answers to one turn of vend's loop on file f: those of
\* the store, and that of EC2 when an instance is launched.
TurnAnswers(f) ==
    LET art == ArtifactOf[f]
    IN  IF art.info.error
        THEN {[load |-> "none", put |-> "none", ec2 |-> "none"]}
        ELSE {a \in [load : {"none", "found", "notfound", "denied", "transport"},
                     put  : {"none", "ok", "fail"},
                     ec2  : {"none", "ok", "fail"}] :
                /\ [load |-> a.load, put |-> a.put]
                       \in StoreAnswers("handler", bucket, KeyOf(art.info, f),
                                        vreq.rebuild)
                /\ a.ec2 \in (IF /\ Returns("handler", vreq.rebuild, a)
                                 /\ Builds(art.info)
                              THEN {"ok", "fail"} ELSE {"none"})}

\* The body of vend's loop for file f under the answers a: the bucket, the
\* upload counters, the keys and the builds after it, and the error that
\* ends the request, if any.
VendTurnOf(art, r, a) ==
    IF art.info.error
    THEN [bucket |-> bucket, uploads |-> uploads, keys |-> vkeys,
          builds |-> vbuilds, error |-> "ParseError"]
    ELSE IF r.call.result = "raised"
    THEN [bucket |-> r.bucket, uploads |-> r.uploads, keys |-> vkeys,
          builds |-> vbuilds, error |-> r.call.error]
    ELSE IF Builds(art.info)
    THEN [bucket |-> r.bucket, uploads |-> r.uploads,
          keys |-> Append(vkeys, r.call.key),
          builds |-> Append(vbuilds, r.call.key),
          error |-> IF a.ec2 = "ok" THEN "none" ELSE "EC2Error"]
    ELSE [bucket |-> r.bucket, uploads |-> r.uploads,
          keys |-> Append(vkeys, r.call.key),
          builds |-> vbuilds, error |-> "none"]

VendTurn(f, a) ==
    VendTurnOf(ArtifactOf[f],
               upload_artifact("handler", bucket, uploads, ArtifactOf[f],
                               Downloaded, vreq.rebuild, a),
               a)

\* One turn of vend's loop over the downloaded files, in the order
\* os.listdir gave them: parse, publish, and launch the build of a source
\* artifact.
VendFile ==
    /\ vpc = "files"
    /\ vfiles # {}
    /\ \E f \in vfiles : \E a \in TurnAnswers(f) : \E t \in {VendTurn(f, a)} :
            /\ bucket' = t.bucket
            /\ uploads' = t.uploads
            /\ vkeys' = t.keys
            /\ vbuilds' = t.builds
            /\ vpc' = IF t.error = "none" THEN vpc ELSE "idle"
            /\ dirs' = IF t.error = "none" THEN dirs
                       ELSE tempdir_exit(dirs, vdir, TRUE)
            /\ vdir' = IF t.error = "none" THEN vdir ELSE 0
            /\ vfiles' = IF t.error = "none" THEN vfiles \ {f} ELSE {}
            /\ vresp' = IF t.error = "none" THEN vresp ELSE VendError(t.error)
    /\ UNCHANGED <<rev, proxyVars, outputVars, parseVars, calls, made, vreq, stackVars>>

\* The loop is over: the with-block ends, the staging directory is removed
\* and vend returns.
VendFinish ==
    /\ vpc = "files"
    /\ vfiles = {}
    /\ vpc' = "idle"
    /\ dirs' = tempdir_exit(dirs, vdir, FALSE)
    /\ vdir' = 0
    /\ vresp' = VendResult(vkeys)
    /\ UNCHANGED <<rev, proxyVars, outputVars, parseVars, storeVars, made, vreq,
                   vfiles, vkeys,
                   vbuilds, stackVars>>

-----------------------------------------------------------------------------
(* Versions (packaging.version) and stack descriptions                     *)

\* The decimal value of a text of digits.
DigitValue(c) == Ord(c) - 48

RECURSIVE ToInt(_)
ToInt(t) ==
    IF t = <<>> THEN 0
    ELSE 10 * ToInt(SubSeq(t, 1, Len(t) - 1)) + DigitValue(t[Len(t)])

RECURSIVE ReleaseOf(_)
ReleaseOf(segs) ==
    IF segs = <<>> \/ Head(segs) = <<>> \/ Head(segs)[1] \notin Digits THEN <<>>
    ELSE <<ToInt(Head(segs))>> \o ReleaseOf(Tail(segs))

\* version.parse of a text N(.N)*[.devN]: the release numbers, and the
\* number of the development release, -1 for a final release.
version_parse(t) ==
    LET segs == Split(t, DOT)
        tail == segs[Len(segs)]
    IN  [release |-> ReleaseOf(segs),
         dev     |-> IF tail # <<>> /\ tail[1] = "d"
                     THEN ToInt(SubSeq(tail, 4, Len(tail))) ELSE -1]

\* The release without its trailing zeros, as packaging compares it.
RECURSIVE Stripped(_)
Stripped(r) ==
    IF r # <<>> /\ r[Len(r)] = 0 THEN Stripped(SubSeq(r, 1, Len(r) - 1)) ELSE r

\* a < b for tuples of numbers.
TupleLess(a, b) ==
    \E i \in 1..Len(b) :
        /\ \A j \in 1..(i - 1) : j <= Len(a) /\ a[j] = b[j]
        /\ \/ i = Len(a) + 1
           \/ i <= Len(a) /\ a[i] < b[i]

\* Version.__lt__: by release, and a development release sorts before the
\* final release of the same numbers.
VersionLess(a, b) ==
    LET ra == Stripped(a.release)
        rb == Stripped(b.release)
    IN  \/ TupleLess(ra, rb)
        \/ /\ ra = rb
           /\ \/ a.dev >= 0 /\ b.dev < 0
              \/ a.dev >= 0 /\ b.dev >= 0 /\ a.dev < b.dev

\* check_stack called without a version (stack_version=None).
NoVersion == [release |-> <<>>, dev |-> -2]

V_0_1      == <<"0", ".", "1">>
V_0_2_DEV1 == <<"0", ".", "2", ".", "d", "e", "v", "1">>
V_0_2      == <<"0", ".", "2">>
V_0_10     == <<"0", ".", "1", "0">>

\* The versions a stack reports.
VersionTexts == {V_0_1, V_0_2_DEV1, V_0_2, V_0_10}

DEFAULT_DEPLOYMENT_STACK_NAME == "Vendor-deployment"
DEFAULT_SERVICE_STACK_NAME == "Vendor"
StackNames == {DEFAULT_DEPLOYMENT_STACK_NAME, DEFAULT_SERVICE_STACK_NAME}

Output(k, v) == [OutputKey |-> k, OutputValue |-> v]

BUCKET_VALUE == <<"b">>

\* The description of a stack that reports version v and its bucket.
Described(v) ==
    [Outputs |-> <<Output("Version", v), Output("BucketName", BUCKET_VALUE)>>]

\* A stack whose outputs name neither a version nor a bucket.
Bare == [Outputs |-> <<Output("ServiceURL", <<"u">>)>>]

\* A stack that reports a version and no bucket.
Bucketless == [Outputs |-> <<Output("Version", V_0_2)>>]

Descriptions == {Described(v) : v \in VersionTexts} \cup {Bare, Bucketless}

\* A stack that does not exist; an empty cache entry.
Absent == [Absent |-> TRUE]
NoEntry == [NoEntry |-> TRUE]

\* The outputs as a mapping in which the first output of a key stays.
RECURSIVE OutputsFoldFirst(_, _)
OutputsFoldFirst(result, outs) ==
    IF outs = <<>> THEN result
    ELSE LET o == Head(outs)
         IN  OutputsFoldFirst([k \in DOMAIN result \cup {o.OutputKey} |->
                                   IF k \in DOMAIN result THEN result[k]
                                   ELSE o.OutputValue],
                              Tail(outs))

\* parse_stack_outputs: the outputs as a mapping; a later output replaces
\* an earlier one of the same key.
RECURSIVE OutputsFold(_, _)
OutputsFold(result, outs) ==
    IF outs = <<>> THEN result
    ELSE LET o == Head(outs)
         IN  OutputsFold([k \in DOMAIN result \cup {o.OutputKey} |->
                              IF k = o.OutputKey THEN o.OutputValue
                              ELSE result[k]],
                         Tail(outs))

EmptyDict == [k \in {} |-> <<>>]

parse_stack_outputs(description) == OutputsFold(EmptyDict, description.Outputs)

\* The descriptions parse_stack_outputs is called with on its own: up to
\* MaxOutputs outputs, keys and values repeating.
MaxOutputs == 3
OutputKeys == {"Version", "BucketName"}
OutputValues == {<<"a">>, <<"b">>}
OutputLists(n) == [1..n -> [OutputKey : OutputKeys, OutputValue : OutputValues]]

\* A description that is still to be parsed, and the mapping returned for one.
NoDescription == [pending |-> TRUE]
ReturnedMapping(result) == [returned |-> result]

-----------------------------------------------------------------------------
(* VendorService                                                           *)

\* What client.describe_stacks can answer: the live stack (a ClientError
\* "does not exist" when there is none), another ClientError, or more than
\* one stack.  A cached name is not asked for.
DescribeAnswers(c, name) ==
    IF c[name] # NoEntry THEN {"live"} ELSE {"live", "error", "many"}

Described1(c, q, err, d) ==
    [cache |-> c, queried |-> q, error |-> err, description |-> d]

\* VendorService.describe_stack on cache c and live stacks lv.
describe_stack(c, lv, name, ans) ==
    IF c[name] # NoEntry THEN Described1(c, 0, "none", c[name])
    ELSE IF ans = "error" THEN Described1(c, 1, "ClientError", Absent)
    ELSE LET stacks == IF lv[name] = Absent THEN <<>>
                       ELSE IF ans = "many" THEN <<lv[name], lv[name]>>
                       ELSE <<lv[name]>>
         IN  IF Len(stacks) > 1 THEN Described1(c, 1, "ValueError", Absent)
             ELSE IF Len(stacks) < 1
             THEN Described1(c, 1, "StackNotFound", Absent)
             ELSE Described1([c EXCEPT ![name] = stacks[1]], 1, "none",
                             stacks[1])

\* check_stack's comparison, sv < stack_version.
Outdated(sv, stack_version) == VersionLess(sv, stack_version)

\* VendorService.check_stack; stack_version is NoVersion or a parsed version.
check_stack(c, lv, name, stack_version, ans) ==
    LET d == describe_stack(c, lv, name, ans)
    IN  IF d.error # "none" \/ stack_version = NoVersion THEN d
        ELSE LET outputs == parse_stack_outputs(d.description)
             IN  IF "Version" \notin DOMAIN outputs
                 THEN [d EXCEPT !.error = "KeyError"]
                 ELSE IF Outdated(version_parse(outputs["Version"]),
                                  stack_version)
                 THEN [d EXCEPT !.error = "StackOutdated"]
                 ELSE d

\* Only a missing stack is deployed.
IsNotFound(err) == err = "StackNotFound"

\* What "except StackException" catches.
IsStackException(err) == err \in {"StackNotFound", "StackOutdated"}

\* The versions a template or handler.py declares ('0.2.dev1' in
\* handler.py), as version.Version makes them.
ExpectedVersions == {version_parse(v) : v \in {V_0_2_DEV1, V_0_2}}

NoValue == [NoValue |-> TRUE]

Idle ==
    [op |-> "none", nested |-> FALSE, name |-> "none", expected |-> NoVersion,
     pc |-> "idle", first |-> "none", command |-> "none", second |-> "none",
     result |-> "none", error |-> "none", value |-> NoValue]

Outcome(err) == IF err = "none" THEN "current" ELSE err

\* The operation of `l` ends: it returns v, or raises err.
Returned(l, v) ==
    [l EXCEPT !.pc = "idle", !.result = "returned", !.error = "none",
              !.value = v]
Raised(l, err) ==
    [l EXCEPT !.pc = "idle", !.result = "raised", !.error = err,
              !.value = NoValue]

\* deployment() or service() has its description: it returns the outputs.
\* service() goes on with them when it called deployment() itself.
EnsureReturns(l, description) ==
    IF l.nested
    THEN [l EXCEPT !.pc = "service", !.result = "returned",
                   !.value = parse_stack_outputs(description)]
    ELSE Returned(l, parse_stack_outputs(description))

\* The first check_stack of deployment() or service().
EnsureStart(op, nested, name) ==
    \E expected \in ExpectedVersions, ans \in DescribeAnswers(cache, name) :
        LET r == check_stack(cache, live, name, expected, ans)
            l == [Idle EXCEPT !.op = op, !.nested = nested, !.name = name,
                              !.expected = expected,
                              !.first = Outcome(r.error)]
        IN  /\ cache' = r.cache
            /\ queries' = r.queried
            /\ cmds' = <<>>
            /\ live' = live
            /\ last' = IF r.error = "none" THEN EnsureReturns(l, r.description)
                       ELSE IF IsStackException(r.error)
                       THEN [l EXCEPT !.pc = "deploy"]
                       ELSE Raised(l, r.error)

\* describe_stack is called.
DescribeStackOp ==
    /\ last.pc = "idle"
    /\ \E name \in StackNames : \E ans \in DescribeAnswers(cache, name) :
        LET r == describe_stack(cache, live, name, ans)
            l == [Idle EXCEPT !.op = "describe_stack", !.name = name,
                              !.first = Outcome(r.error)]
        IN  /\ cache' = r.cache
            /\ queries' = r.queried
            /\ last' = IF r.error = "none" THEN Returned(l, r.description)
                       ELSE Raised(l, r.error)
    /\ cmds' = <<>>
    /\ UNCHANGED <<rev, proxyVars, outputVars, parseVars, storeVars, vendVars, live>>

\* check_stack is called, with or without a version.
CheckStackOp ==
    /\ last.pc = "idle"
    /\ \E name \in StackNames, sv \in ExpectedVersions \cup {NoVersion} :
       \E ans \in DescribeAnswers(cache, name) :
        LET r == check_stack(cache, live, name, sv, ans)
            l == [Idle EXCEPT !.op = "check_stack", !.name = name,
                              !.expected = sv, !.first = Outcome(r.error)]
        IN  /\ cache' = r.cache
            /\ queries' = r.queried
            /\ last' = IF r.error = "none" THEN Returned(l, r.description)
                       ELSE Raised(l, r.error)
    /\ cmds' = <<>>
    /\ UNCHANGED <<rev, proxyVars, outputVars, parseVars, storeVars, vendVars, live>>

\* deployment() is called, for the stack of its default name.
DeploymentOp ==
    /\ last.pc = "idle"
    /\ EnsureStart("deployment", FALSE, DEFAULT_DEPLOYMENT_STACK_NAME)
    /\ UNCHANGED <<rev, proxyVars, outputVars, parseVars, storeVars, vendVars>>

\* service() is called with a deployment bucket: it checks the stack of its
\* default name.
ServiceOp ==
    /\ last.pc = "idle"
    /\ EnsureStart("service", FALSE, DEFAULT_SERVICE_STACK_NAME)
    /\ UNCHANGED <<rev, proxyVars, outputVars, parseVars, storeVars, vendVars>>

\* service() is called without a deployment bucket: it calls deployment().
ServiceDeploymentOp ==
    /\ last.pc = "idle"
    /\ EnsureStart("deployment", TRUE, DEFAULT_DEPLOYMENT_STACK_NAME)
    /\ UNCHANGED <<rev, proxyVars, outputVars, parseVars, storeVars, vendVars>>

\* service() has the outputs of its deployment() call: it takes the bucket
\* name from them and checks its own stack.
ServiceCheck ==
    /\ last.pc = "service"
    /\ IF "BucketName" \in DOMAIN last.value
       THEN EnsureStart("service", FALSE, DEFAULT_SERVICE_STACK_NAME)
       ELSE /\ last' = Raised([Idle EXCEPT !.op = "service"], "KeyError")
            /\ UNCHANGED <<live, cache, queries, cmds>>
    /\ UNCHANGED <<rev, proxyVars, outputVars, parseVars, storeVars, vendVars>>

Command(c, name) == [command |-> c, stack_name |-> name]

\* The cache when a deploy leaves the entry of the stack in it.
CacheKept(c, name) == c

\* self._describe_cache.pop(stack_name, None).
CachePop(c, name) == [c EXCEPT ![name] = NoEntry]

\* The except branch: the aws cloudformation commands (package first, for
\* service()), then the cache entry is dropped.  A command that fails
\* raises CalledProcessError.  A deploy that succeeds leaves the stack with
\* the description its template gives it.
RunDeploy ==
    /\ last.pc = "deploy"
    /\ \E package \in {"ok", "fail"}, deploy \in {"ok", "fail"},
          d \in Descriptions :
        LET packaged == Command("package", last.name)
            deployed == Command("deploy", last.name)
        IN  IF last.op = "service" /\ package = "fail"
            THEN /\ deploy = "ok"
                 /\ d = Bare
                 /\ cmds' = cmds \o <<packaged>>
                 /\ last' = Raised([last EXCEPT !.command = "fail"],
                                   "CalledProcessError")
                 /\ UNCHANGED <<live, cache>>
            ELSE /\ (last.op = "service" \/ package = "ok")
                 /\ cmds' = cmds \o (IF last.op = "service" THEN <<packaged>>
                                     ELSE <<>>) \o <<deployed>>
                 /\ IF deploy = "ok"
                    THEN /\ live' = [live EXCEPT ![last.name] = d]
                         /\ cache' = CachePop(cache, last.name)
                         /\ last' = [last EXCEPT !.pc = "recheck",
                                                 !.command = "ok"]
                    ELSE /\ d = Bare
                         /\ last' = Raised([last EXCEPT !.command = "fail"],
                                           "CalledProcessError")
                         /\ UNCHANGED <<live, cache>>
    /\ UNCHANGED <<rev, proxyVars, outputVars, parseVars, storeVars, vendVars, queries>>

\* The check_stack that follows the deploy.
Recheck ==
    /\ last.pc = "recheck"
    /\ \E ans \in DescribeAnswers(cache, last.name) :
        LET r == check_stack(cache, live, last.name, last.expected, ans)
            l == [last EXCEPT !.second = Outcome(r.error)]
        IN  /\ cache' = r.cache
            /\ queries' = queries + r.queried
            /\ last' = IF r.error = "none" THEN EnsureReturns(l, r.description)
                       ELSE Raised(l, r.error)
    /\ UNCHANGED <<rev, proxyVars, outputVars, parseVars, storeVars, vendVars, live, cmds>>

\* delete(): a delete-stack command for each name given, the service stack
\* first; `done` of them succeed and the next one, if any, raises.
DeleteOp ==
    /\ last.pc = "idle"
    /\ \E names \in {<<DEFAULT_SERVICE_STACK_NAME, DEFAULT_DEPLOYMENT_STACK_NAME>>,
                     <<DEFAULT_SERVICE_STACK_NAME>>,
                     <<DEFAULT_DEPLOYMENT_STACK_NAME>>, <<>>} :
        \E done \in 0..Len(names) :
            LET run == IF done < Len(names) THEN done + 1 ELSE done
                l   == [Idle EXCEPT !.op = "delete"]
            IN  /\ cmds' = [i \in 1..run |-> Command("delete-stack", names[i])]
                /\ live' = [n \in StackNames |->
                               IF \E i \in 1..done : names[i] = n THEN Absent
                               ELSE live[n]]
                /\ last' = IF done < Len(names)
                           THEN Raised(l, "CalledProcessError")
                           ELSE Returned(l, NoValue)
    /\ queries' = 0
    /\ UNCHANGED <<rev, proxyVars, outputVars, parseVars, storeVars, vendVars, cache>>

-----------------------------------------------------------------------------
(* apiproxy: routing and the request adapter                               *)

\* The characters \w matches.
WordChars == Digits \cup SeqToSet(Letters) \cup {"_"}

\* PROXY_PARAM_RE.search(resource), \{(?P<key>\w+)\+\}: the key of the
\* leftmost "{key+}" in the resource.
PROXY_PARAM_RE(resource) ==
    LET ends(i, j) == /\ j > i + 1
                      /\ j + 1 <= Len(resource)
                      /\ resource[j] = "+"
                      /\ resource[j + 1] = "}"
                      /\ \A k \in (i + 1)..(j - 1) : resource[k] \in WordChars
        starts == {i \in 1..Len(resource) :
                       /\ resource[i] = "{"
                       /\ \E j \in 1..Len(resource) : ends(i, j)}
    IN  IF starts = {} THEN NoMatch
        ELSE LET i == CHOOSE i \in starts : \A h \in starts : i <= h
                 j == CHOOSE j \in 1..Len(resource) : ends(i, j)
             IN  [matched |-> TRUE, key |-> SubSeq(resource, i + 1, j - 1)]

\* dict.update: the entries of e added to d, replacing those of the same key.
Update(d, e) ==
    [k \in DOMAIN d \cup DOMAIN e |-> IF k \in DOMAIN e THEN e[k] ELSE d[k]]

\* dict.pop(key) of a dict that has the key: the dict without it.
Popped(d, key) == [k \in DOMAIN d \ {key} |-> d[k]]

\* The keyword arguments when the path parameters come first and the body last.
MergeKwargsBodyLast(body, query, path) ==
    Update(Update(Update(EmptyDict, path), query), body)

\* The three kwargs.update calls of __call__: body, query, path.
MergeKwargs(body, query, path) ==
    Update(Update(Update(EmptyDict, body), query), path)

\* sorted(apiproxy.routes): the registered routes in ascending order.
SortedRoutes(table) ==
    LET RECURSIVE SetToSeq(_)
        SetToSeq(S) == IF S = {} THEN <<>>
                       ELSE LET x == CHOOSE x \in S : TRUE
                            IN  <<x>> \o SetToSeq(S \ {x})
    IN  sorted(SetToSeq(DOMAIN table))

\* The routes tried in ascending order, shallower routes first.
RouteOrderAscending(table) == SortedRoutes(table)

\* reversed(sorted(apiproxy.routes)): the order dispatch tries the routes in.
RouteOrder(table) ==
    LET asc == SortedRoutes(table)
    IN  [i \in 1..Len(asc) |-> asc[Len(asc) + 1 - i]]

\* The for loop of dispatch: the first route of the order that the resource
\* starts with, None when the loop ends without one.
FirstRoute(order, resource) ==
    IF \A i \in 1..Len(order) : ~IsPrefixAt(resource, 1, order[i]) THEN None
    ELSE order[CHOOSE i \in 1..Len(order) :
                   /\ IsPrefixAt(resource, 1, order[i])
                   /\ \A h \in 1..(i - 1) : ~IsPrefixAt(resource, 1, order[h])]

NOT_FOUND_MSG == "Route not found."
SERVER_ERROR_MSG ==
    "Something went wrong. Maybe the traceback will help?\nPlease include it in any issue you raise.\n\n"
ERR_MSG ==
    "Something went wrong. Maybe the traceback will help?\nPlease include it in any issue you raise.\n\n"

\* The message of a response: a fixed text and, after it, the trace of an error.
Message(text, trace) == [text |-> text, trace |-> trace]

\* What the routed function can do with its arguments: return a result,
\* return a result json.dumps cannot encode, raise APIError(400, ...), or
\* raise another exception.  lambdavendor.py has no APIError.
FunctionOutcomes(r) ==
    {"returns", "unserialisable", "Exception"}
        \cup (IF r = "handler" THEN {"APIError"} ELSE {})

\* A dict of an event, and the None an event has in place of one.
SomeDict(d) == [some |-> TRUE, value |-> d]
NoDict == [some |-> FALSE, value |-> EmptyDict]

\* The stage at which handling ends with an error, and the error: the
\* parsing of the request ("TypeError": the path parameters are None;
\* "KeyError": they lack the key; "ValueError": json.loads fails), the
\* function, or the encoding of its result.
Parsing(event) ==
    LET match == PROXY_PARAM_RE(event.resource)
    IN  IF match.matched /\ event.pathParameters = NoDict
        THEN [error |-> "TypeError"]
        ELSE IF /\ match.matched
                /\ match.key \notin DOMAIN event.pathParameters.value
        THEN [error |-> "KeyError"]
        ELSE IF event.body.kind = "invalid"
        THEN [error |-> "ValueError"]
        ELSE LET path == IF event.pathParameters = NoDict THEN EmptyDict
                         ELSE IF match.matched
                         THEN Popped(event.pathParameters.value, match.key)
                         ELSE event.pathParameters.value
                 query == IF event.queryStringParameters = NoDict
                          THEN EmptyDict
                          ELSE event.queryStringParameters.value
                 body == IF event.body.kind = "none" THEN EmptyDict
                         ELSE event.body.value
             IN  [error  |-> "none",
                  args   |-> IF match.matched
                             THEN Split(event.pathParameters.value[match.key],
                                        SLASH)
                             ELSE <<>>,
                  kwargs |-> MergeKwargs(body, query, path)]

\* _api_response.
ApiResponse(code, message) == [statusCode |-> code, message |-> message]

NoResponseYet == [statusCode |-> 0, message |-> Message("none", "none")]
Result == Message("result", "none")

\* No event has arrived.
NoHandled == [pending |-> TRUE]

\* What came of an event: the function called, if any, with its arguments,
\* the response returned, or the error that left the entry point.
Handled(event, route, function, called, args, kwargs, error, escaped, response) ==
    [event |-> event, route |-> route, function |-> function,
     called |-> called, args |-> args, kwargs |-> kwargs, error |-> error,
     escaped |-> escaped, response |-> response]

\* An error at a stage outside the try of apiproxy.__call__ leaves it.
Escaped(event, route, function, called, args, kwargs, error) ==
    Handled(event, route, function, called, args, kwargs, error, TRUE,
            NoResponseYet)

\* apiproxy.__call__ of handler.py for the function registered under route,
\* which does fout.
proxy_call(event, route, function, fout) ==
    LET p == Parsing(event)
    IN  IF p.error # "none"
        THEN Escaped(event, route, function, FALSE, <<>>, EmptyDict, p.error)
        ELSE IF fout = "APIError"
        THEN Handled(event, route, function, TRUE, p.args, p.kwargs,
                     "APIError", FALSE,
                     ApiResponse(400, Message("err.message", "none")))
        ELSE IF fout = "Exception"
        THEN Handled(event, route, function, TRUE, p.args, p.kwargs,
                     "Exception", FALSE,
                     ApiResponse(500, Message(SERVER_ERROR_MSG, "Exception")))
        ELSE IF fout = "unserialisable"
        THEN Escaped(event, route, function, TRUE, p.args, p.kwargs,
                     "TypeError")
        ELSE Handled(event, route, function, TRUE, p.args, p.kwargs, "none",
                     FALSE, ApiResponse(200, Result))

\* apiproxy.dispatch of handler.py.
dispatch(table, event, fout) ==
    LET route == FirstRoute(RouteOrder(table), event.resource)
    IN  IF route = None
        THEN Handled(event, None, "none", FALSE, <<>>, EmptyDict, "none",
                     FALSE, ApiResponse(404, Message(NOT_FOUND_MSG, "none")))
        ELSE proxy_call(event, route, table[route], fout)

\* The entry point of lambdavendor.py, apitrace(apiproxy(vend)): the proxy
\* parses the request and calls vend, and every exception of either, or of
\* the encoding of the result, becomes a 500 response.
apitrace(event, fout) ==
    LET p == Parsing(event)
        failed(called, error) ==
            Handled(event, None, "vend", called,
                    IF called THEN p.args ELSE <<>>,
                    IF called THEN p.kwargs ELSE EmptyDict,
                    error, FALSE, ApiResponse(500, Message(ERR_MSG, error)))
    IN  IF p.error # "none" THEN failed(FALSE, p.error)
        ELSE IF fout = "Exception" THEN failed(TRUE, "Exception")
        ELSE IF fout = "unserialisable" THEN failed(TRUE, "TypeError")
        ELSE Handled(event, None, "vend", TRUE, p.args, p.kwargs, "none",
                     FALSE, ApiResponse(200, Result))

\* Texts of routes, resources and parameters.
ROUTE_VERSION == <<"/", "v", "e", "r", "s", "i", "o", "n">>
ROUTE_3_VEND  == <<"/", "3", "/", "v", "e", "n", "d">>
ROUTE_2_VEND  == <<"/", "2", "/", "v", "e", "n", "d">>
ROUTE_3       == <<"/", "3">>
ROUTE_ROOT    == <<"/">>
RESOURCE_PROXY == ROUTE_3_VEND \o <<"/", "{", "r", "+", "}">>
RESOURCE_OTHER == <<"/", "4", "/", "x">>
KEY_R == <<"r">>
KEY_K == <<"k">>
KEY_J == <<"j">>
TAIL_XY == <<"x", "/", "y">>

\* apiproxy.routes once handler.py is imported: the routes of its two
\* @apiproxy.route decorators.
ImportedRoutes ==
    [q \in {ROUTE_VERSION, ROUTE_3_VEND, ROUTE_2_VEND} |->
        IF q = ROUTE_VERSION THEN "version" ELSE "vend"]

\* The routes a further registration names.
MoreRoutes == {ROUTE_3, ROUTE_ROOT, ROUTE_3_VEND}

\* The events dispatched: a resource, and path parameters, query
\* parameters and a body that share keys.
Dict1(k, v) == [x \in {k} |-> v]
Events ==
    [resource : {ROUTE_VERSION, ROUTE_3_VEND, RESOURCE_PROXY, RESOURCE_OTHER},
     pathParameters : {NoDict, SomeDict(Dict1(KEY_R, TAIL_XY)),
                       SomeDict(Dict1(KEY_K, <<"p">>)),
                       SomeDict(Update(Dict1(KEY_R, TAIL_XY),
                                       Dict1(KEY_K, <<"p">>)))},
     queryStringParameters : {NoDict, SomeDict(Dict1(KEY_K, <<"q">>))},
     body : {[kind |-> "none", value |-> EmptyDict],
             [kind |-> "invalid", value |-> EmptyDict],
             [kind |-> "object", value |-> Dict1(KEY_K, <<"b">>)],
             [kind |-> "object",
              value |-> Update(Dict1(KEY_K, <<"b">>), Dict1(KEY_J, <<"b">>))]}]

\* apiproxy.route(*routes)(function): a function is registered for routes,
\* before any event arrives.
Route ==
    /\ rev = "handler"
    /\ handled = NoHandled
    /\ \E rs \in SUBSET MoreRoutes \ {{}} :
        routes' = Update(routes, [q \in rs |-> "extra"])
    /\ UNCHANGED <<rev, handled, outputVars, parseVars, storeVars, vendVars,
                   stackVars>>

\* An event arrives at the entry point of the revision, dispatch of
\* handler.py or the decorated vend of lambdavendor.py.
Dispatch ==
    /\ handled = NoHandled
    /\ \E event \in Events : \E fout \in FunctionOutcomes(rev) :
        handled' = IF rev = "handler" THEN dispatch(routes, event, fout)
                   ELSE apitrace(event, fout)
    /\ UNCHANGED <<rev, routes, outputVars, parseVars, storeVars, vendVars,
                   stackVars>>

-----------------------------------------------------------------------------
(* The publisher called directly, and the parser run on a filename         *)

\* The number of upload_artifact calls made.
MaxCalls == 3

\* The artifacts the publisher is called with: two of one distribution.
StoreFiles == {SRC_A, WHL_A}

\* upload_artifact is called, with an artifact whose local file has any
\* content, forced or not.
UploadArtifact ==
    /\ Len(calls) < MaxCalls
    /\ \E f \in StoreFiles, c \in Contents, overwrite \in BOOLEAN :
        \E a \in StoreAnswers(rev, bucket, KeyOf(ArtifactOf[f].info, f),
                               overwrite) :
            LET r == upload_artifact(rev, bucket, uploads, ArtifactOf[f], c,
                                     overwrite, a)
            IN  /\ bucket' = r.bucket
                /\ uploads' = r.uploads
                /\ calls' = Append(calls, r.call)
    /\ UNCHANGED <<rev, proxyVars, outputVars, parseVars, vendVars, stackVars>>

\* PackageInfo.parse is called on the filename.
Parse ==
    /\ parsed = NotParsed
    /\ parsed' = parse(fname)
    /\ UNCHANGED <<rev, proxyVars, outputVars, fname, wheel, storeVars, vendVars,
                   stackVars>>

-----------------------------------------------------------------------------
(* Specifications                                                          *)

ParseIdle == fname = <<>> /\ parsed = NotParsed /\ wheel = NoWheel

StoreIdle ==
    /\ bucket = [k \in StoreKeys |-> NoObject]
    /\ uploads = [k \in StoreKeys |-> 0]
    /\ calls = <<>>

VendIdle ==
    /\ dirs = {}
    /\ made = 0
    /\ vpc = "idle"
    /\ vreq = NoRequest
    /\ vdir = 0
    /\ vfiles = {}
    /\ vkeys = <<>>
    /\ vbuilds = <<>>
    /\ vresp = NoResponse

ProxyIdle == routes = <<>> /\ handled = NoHandled

OutputsIdle == descr = NoDescription /\ mapping = NoDescription

\* parse_stack_outputs(description), called once with the description.
ParseStackOutputs ==
    /\ descr # NoDescription
    /\ mapping = NoDescription
    /\ mapping' = ReturnedMapping(parse_stack_outputs(descr))
    /\ UNCHANGED <<rev, descr, proxyVars, parseVars, storeVars, vendVars,
                   stackVars>>

StackIdle ==
    /\ live = [n \in StackNames |-> Absent]
    /\ cache = [n \in StackNames |-> NoEntry]
    /\ queries = 0
    /\ cmds = <<>>
    /\ last = Idle

\* The parser, run on each generated filename.
InitParse ==
    /\ rev = "handler"
    /\ \E n \in 1..MaxSegs : fname \in NamesOf(n)
    /\ parsed = NotParsed
    /\ wheel = NoWheel
    /\ StoreIdle /\ VendIdle /\ StackIdle /\ ProxyIdle /\ OutputsIdle

NextParse == Parse

SpecParse == InitParse /\ [][NextParse]_vars

\* The parser, run on each composed wheel filename.
InitWheel ==
    /\ rev = "handler"
    /\ wheel \in WheelFields
    /\ fname = WheelName(wheel)
    /\ parsed = NotParsed
    /\ StoreIdle /\ VendIdle /\ StackIdle /\ ProxyIdle /\ OutputsIdle

SpecWheel == InitWheel /\ [][NextParse]_vars

\* The entry point of either revision, for one event.
InitProxy ==
    /\ rev \in Revisions
    /\ routes = IF rev = "handler" THEN ImportedRoutes ELSE EmptyDict
    /\ handled = NoHandled
    /\ ParseIdle /\ StoreIdle /\ VendIdle /\ StackIdle /\ OutputsIdle

NextProxy == Route \/ Dispatch

SpecProxy == InitProxy /\ [][NextProxy]_vars

\* parse_stack_outputs on its own, for any description.
InitOutputs ==
    /\ rev = "handler"
    /\ \E n \in 0..MaxOutputs : \E outs \in OutputLists(n) :
           descr = [Outputs |-> outs]
    /\ mapping = NoDescription
    /\ ParseIdle /\ StoreIdle /\ VendIdle /\ StackIdle /\ ProxyIdle

NextOutputs == ParseStackOutputs

SpecOutputs == InitOutputs /\ [][NextOutputs]_vars

\* The publisher of either revision, on a bucket that starts empty.
InitStore ==
    /\ rev \in Revisions
    /\ ParseIdle /\ StoreIdle /\ VendIdle /\ StackIdle /\ ProxyIdle /\ OutputsIdle

NextStore == UploadArtifact

SpecStore == InitStore /\ [][NextStore]_vars

\* The vend handler of handler.py, on a bucket that starts empty.
InitVend ==
    /\ rev = "handler"
    /\ ParseIdle /\ StoreIdle /\ VendIdle /\ StackIdle /\ ProxyIdle /\ OutputsIdle

NextVend == VendStart \/ VendFile \/ VendFinish

SpecVend == InitVend /\ [][NextVend]_vars

\* A new VendorService, whatever stacks exist.
InitStack ==
    /\ rev = "handler"
    /\ ParseIdle /\ StoreIdle /\ VendIdle /\ ProxyIdle /\ OutputsIdle
    /\ live \in [StackNames -> Descriptions \cup {Absent}]
    /\ cache = [n \in StackNames |-> NoEntry]
    /\ queries = 0
    /\ cmds = <<>>
    /\ last = Idle

NextStack ==
    \/ DescribeStackOp
    \/ CheckStackOp
    \/ DeploymentOp
    \/ ServiceOp
    \/ ServiceDeploymentOp
    \/ ServiceCheck
    \/ RunDeploy
    \/ Recheck
    \/ DeleteOp

SpecStack == InitStack /\ [][NextStack]_vars


-----------------------------------------------------------------------------
(* Properties of upload_artifact (SpecStore)                                *)

\* The calls of the log, by position.
CallIndexes == 1..Len(calls)

\* C1: from a key with no object, two calls in sequence for the same
\* artifact with overwrite=False that both return make exactly one upload,
\* in the first call, and return the same key.
C1_ConditionalPublishIdempotent ==
    \A i \in CallIndexes \ {Len(calls)} :
        LET c == calls[i]
            d == calls[i + 1]
        IN  ( /\ c.filename = d.filename
              /\ ~c.overwrite /\ ~d.overwrite
              /\ ~c.existed
              /\ c.result = "returned" /\ d.result = "returned" )
            => /\ c.put # "none"
               /\ d.put = "none"
               /\ c.key = d.key

\* C2: every call with overwrite=True calls upload_file, whatever the key
\* holds and without a probe before it, so the uploads a key has seen are at
\* least the forced calls made for it.
C2_ForcedPublishUploads ==
    /\ \A i \in CallIndexes :
           calls[i].overwrite => calls[i].load = "none" /\ calls[i].put # "none"
    /\ \A k \in StoreKeys :
           uploads[k] >= Cardinality({i \in CallIndexes :
                                          calls[i].key = k /\ calls[i].overwrite})

\* Two forced publishes of one artifact in sequence, the second on an
\* existing object, in handler.py: two uploads recorded.
C2_Witness ==
    /\ rev = "handler"
    /\ Len(calls) = 2
    /\ calls[1].overwrite /\ calls[2].overwrite
    /\ calls[1].filename = calls[2].filename
    /\ calls[2].existed
    /\ uploads[calls[1].key] = 2

\* C3: a call with overwrite=False on a key that holds an object makes no
\* upload, and when no call of the log was forced the object of a key is the
\* content of the first call that stored one there.
C3_ExistingObjectKept ==
    /\ \A i \in CallIndexes :
           (~calls[i].overwrite /\ calls[i].existed) => calls[i].put = "none"
    /\ (\A i \in CallIndexes : ~calls[i].overwrite)
           => \A k \in StoreKeys :
                  LET stored == {i \in CallIndexes :
                                     calls[i].key = k /\ calls[i].put = "ok"}
                  IN  stored # {}
                          => bucket[k] = calls[CHOOSE i \in stored :
                                                   \A j \in stored : i <= j].content

\* C4: a probe that fails for lack of permission or of a connection ends the
\* call with the probe's error and no upload; an upload after a probe
\* follows only the answer "not found".
C4_ProbeFailurePropagates ==
    \A i \in CallIndexes :
        LET c == calls[i]
        IN  /\ c.load \in {"denied", "transport"}
                => c.put = "none" /\ c.result = "raised" /\ c.error = "probe_failed"
            /\ (~c.overwrite /\ c.put # "none") => c.load = "notfound"

-----------------------------------------------------------------------------
(* Properties of vend and its staging directory (SpecVend)                  *)

\* The keys of a set of parseable files.
KeysOfFiles(files) == {KeyOf(ArtifactOf[f].info, f) : f \in files}

\* How often x occurs in the sequence q.
Count(q, x) == Cardinality({i \in 1..Len(q) : q[i] = x})

\* q is in strictly ascending string order.
IsSorted(q) == \A i \in 1..Len(q) : \A j \in (i + 1)..Len(q) : StrLess(q[i], q[j])

\* Whether a key names a wheel.
IsWheelKey(k) == IsPrefixAt(k, Len(k) - Len(WHL) + 1, WHL)

\* The source files of the last request.
SourcesOf(req) == {f \in req.files : ~ArtifactOf[f].info.error
                                       /\ is_src(ArtifactOf[f].info)}

\* C5: once the with-block of download_packages has been left, by its end,
\* by a failure of pip or by an exception of vend's loop, no staging
\* directory exists.
C5_StagingDirectoryRemoved == vpc = "idle" => dirs = {}

\* C6: a request that acquired a source artifact and returned has launched
\* one build for it, and its artifacts list holds the key of the source and
\* the key of a wheel built from it, in sorted order.
C6_SourceAndBuiltKeysListed ==
    vresp.status = "returned"
        => \A f \in SourcesOf(vreq) :
               LET key == KeyOf(ArtifactOf[f].info, f)
                   dir == ArtifactOf[f].info.distribution \o <<SLASH>>
               IN  /\ Count(vbuilds, key) = 1
                   /\ Count(vresp.artifacts, key) = 1
                   /\ \E i \in 1..Len(vresp.artifacts) :
                          /\ IsWheelKey(vresp.artifacts[i])
                          /\ IsPrefixAt(vresp.artifacts[i], 1, dir)
                          /\ vresp.artifacts[i] \notin KeysOfFiles(vreq.files)
                   /\ IsSorted(vresp.artifacts)

\* C6, as the code has it: a request of handler.py that returned has
\* launched one build for each source artifact it acquired and none for a
\* wheel, and its artifacts list is the keys of the acquired files, each
\* once, in sorted order; the key of a wheel that a build will make is not
\* in it.
C6_AcquiredKeysListedSorted ==
    vresp.status = "returned"
        => /\ \A f \in vreq.files :
                  Count(vbuilds, KeyOf(ArtifactOf[f].info, f))
                      = IF f \in SourcesOf(vreq) THEN 1 ELSE 0
           /\ Len(vbuilds) = Cardinality(SourcesOf(vreq))
           /\ SeqToSet(vresp.artifacts) = KeysOfFiles(vreq.files)
           /\ Len(vresp.artifacts) = Cardinality(vreq.files)
           /\ IsSorted(vresp.artifacts)

\* A returned request that acquired a source archive and a wheel, the
\* wheel published first.
C6_Witness ==
    /\ vresp.status = "returned"
    /\ vreq.files = {SRC_B, WHL_A}
    /\ vkeys = <<KeyOf(ArtifactOf[SRC_B].info, SRC_B),
                 KeyOf(ArtifactOf[WHL_A].info, WHL_A)>>
    /\ vbuilds = <<KeyOf(ArtifactOf[SRC_B].info, SRC_B)>>
    /\ Len(vresp.artifacts) = 2

\* C7: a returned request with minimal=True that acquired only wheels has
\* launched no build and has an empty artifacts list.
C7_MinimalSuppressesWheels ==
    ( /\ vresp.status = "returned"
      /\ vreq.minimal
      /\ \A f \in vreq.files : is_whl(ArtifactOf[f].info) )
        => vbuilds = <<>> /\ vresp.artifacts = <<>>

-----------------------------------------------------------------------------
(* Properties of VendorService.deployment and service (SpecStack)           *)

\* deployment() or service() has made its first check_stack and has ended
\* (a deployment() that service() called ends where service() goes on).
Ensured ==
    /\ last.op \in {"deployment", "service"}
    /\ last.first # "none"
    /\ last.pc \in {"idle", "service"}

\* The first check found the stack missing (ABSENT) or outdated.
FoundMissingOrOutdated == last.first \in {"StackNotFound", "StackOutdated"}

\* The deploy commands run by the operation.
Deploys == Count(cmds, Command("deploy", last.name))

\* The operation returned the outputs of a stack at the expected version
\* or a later one.
ReturnedCurrentOutputs ==
    /\ last.result = "returned"
    /\ last.value # NoValue
    /\ "Version" \in DOMAIN last.value
    /\ ~VersionLess(version_parse(last.value["Version"]), last.expected)

\* The re-check ran, and when it failed its error left the operation.
RecheckedOnce ==
    /\ last.second # "none"
    /\ IF last.second = "current" THEN ReturnedCurrentOutputs
       ELSE last.result = "raised" /\ last.error = last.second

\* C8: an ended deployment() or service() has run a deploy exactly when its
\* first check found the stack missing or outdated; it then ran one deploy
\* and the re-check after it, whose failure left the operation; on a
\* current stack it ran no deploy and returned the outputs.
C8_DeployIffNotCurrent ==
    Ensured
        => /\ Deploys >= 1 <=> FoundMissingOrOutdated
           /\ FoundMissingOrOutdated => Deploys = 1 /\ RecheckedOnce
           /\ last.first = "current" => Deploys = 0 /\ ReturnedCurrentOutputs

\* C8, as the code has it: the except branch with its commands is entered
\* exactly when the first check found the stack missing or outdated, and it
\* runs at most one deploy; a package or deploy command that fails leaves
\* the operation with CalledProcessError and no re-check; after a deploy
\* that succeeded comes one re-check, whose failure leaves the operation
\* with no further command; on a current stack no command is run and the
\* outputs are returned.
C8_DeployProcedureIffNotCurrent ==
    Ensured
        => /\ cmds # <<>> <=> FoundMissingOrOutdated
           /\ Deploys <= 1
           /\ last.command = "fail"
                  => /\ last.result = "raised"
                     /\ last.error = "CalledProcessError"
                     /\ last.second = "none"
           /\ last.command = "ok"
                  => /\ Deploys = 1
                     /\ cmds[Len(cmds)] = Command("deploy", last.name)
                     /\ RecheckedOnce
           /\ FoundMissingOrOutdated => last.command # "none"
           /\ last.first = "current"
                  => /\ last.command = "none"
                     /\ last.second = "none"
                     /\ ReturnedCurrentOutputs

\* service() found its stack outdated, packaged and deployed, and the
\* re-check found it outdated still: StackOutdated leaves service().
C8_Witness ==
    /\ last.op = "service"
    /\ last.pc = "idle"
    /\ last.first = "StackOutdated"
    /\ last.command = "ok"
    /\ cmds = <<Command("package", last.name), Command("deploy", last.name)>>
    /\ last.second = "StackOutdated"
    /\ last.result = "raised" /\ last.error = "StackOutdated"

-----------------------------------------------------------------------------
(* Properties of PackageInfo.parse (SpecParse)                              *)

\* Whether text s ends with text e after at least one character.
EndsWith(s, e) == Len(s) > Len(e) /\ IsPrefixAt(s, Len(s) - Len(e) + 1, e)

\* The source grammar as a whole filename: a distribution without hyphens,
\* a hyphen, a version, and one of the extensions .tar.gz, .tar.bz2,
\* .tar.xz and .zip at the end.
MatchesSourceGrammar(n) ==
    \E e \in {TAR_GZ, TAR_BZ2, TAR_XZ, ZIP} :
        /\ EndsWith(n, e)
        /\ LET segs == Split(SubSeq(n, 1, Len(n) - Len(e)), HYPHEN)
           IN  /\ Len(segs) >= 2
               /\ segs[1] # <<>>
               /\ Len(segs) > 2 \/ segs[2] # <<>>

\* The built-binary grammar as a whole filename: distribution, version, an
\* optional build that begins with a digit, and three tag sets, the last
\* followed by .whl at the end.
MatchesBinaryGrammar(n) ==
    LET segs == Split(n, HYPHEN)
    IN  /\ Len(segs) \in {5, 6}
        /\ \A i \in 1..Len(segs) : segs[i] # <<>>
        /\ Len(segs) = 6 => IsBuildSeg(segs[3])
        /\ EndsWith(segs[Len(segs)], WHL)

\* C9: parse raises ParseError for a filename that is, as a whole, of
\* neither grammar.
C9_ParseErrorOutsideGrammars ==
    ( /\ parsed # NotParsed
      /\ ~MatchesSourceGrammar(fname)
      /\ ~MatchesBinaryGrammar(fname) )
        => parsed = ParseError

\* C10: no parsed filename is matched by both patterns, and is_src() holds
\* of the result exactly when its extension is not .whl.
C10_ExactlyOneGrammar ==
    parsed # NotParsed
        => /\ ~(src_re(fname).matched /\ whl_re(fname).matched)
           /\ ~parsed.error => (is_src(parsed) <=> parsed.ext # WHL)


\* The extension of the source grammar that filename n ends with.
SourceExtOf(n) == CHOOSE e \in {TAR_GZ, TAR_BZ2, TAR_XZ, ZIP} : EndsWith(n, e)

\* The characters of n before its first hyphen.
BeforeFirstHyphen(n) == Split(n, HYPHEN)[1]

\* The characters of n between its first hyphen and its extension.
UpToExtension(n) ==
    SubSeq(n, Len(BeforeFirstHyphen(n)) + 2, Len(n) - Len(SourceExtOf(n)))

\* parse returned a source identity with the fields the grammar gives.
ParsedAsSourceOf(n) ==
    /\ ~parsed.error
    /\ is_src(parsed)
    /\ parsed.distribution = BeforeFirstHyphen(n)
    /\ parsed.version = UpToExtension(n)

\* C11: a parsed filename of the source grammar, whatever its version
\* holds, gives a source identity whose distribution is the text before the
\* first hyphen and whose version is all of the text from there to the
\* extension.
C11_SourceFieldsOfGrammar ==
    (parsed # NotParsed /\ MatchesSourceGrammar(fname))
        => ParsedAsSourceOf(fname)

\* C11, as the code has it: the same for a filename of the source grammar
\* whose version has no hyphen (the name has one hyphen in all).
C11_SourceFieldsHyphenFree ==
    ( /\ parsed # NotParsed
      /\ MatchesSourceGrammar(fname)
      /\ Len(Split(fname, HYPHEN)) = 2 )
        => ParsedAsSourceOf(fname)

\* a-2.tar.bz2 has been parsed: distribution a, version 2.
C11_Witness ==
    /\ fname = <<"a", "-", "2">> \o TAR_BZ2
    /\ parsed # NotParsed
    /\ ~parsed.error
    /\ parsed.distribution = <<"a">>
    /\ parsed.version = <<"2">>


-----------------------------------------------------------------------------
(* Properties of PackageInfo.parse on wheel filenames (SpecWheel)           *)

\* C12: the filename composed of a distribution, a version, an optional
\* build tag and three tag sets parses to a wheel identity with the same
\* distribution, version and tag sets, and with the build tag only when the
\* filename was composed with one.
C12_WheelRoundTrip ==
    (parsed # NotParsed /\ wheel # NoWheel)
        => /\ ~parsed.error
           /\ is_whl(parsed)
           /\ parsed.distribution = wheel.distribution
           /\ parsed.version = wheel.version
           /\ parsed.build_tag = wheel.build
           /\ parsed.python_tags = SeqToSet(wheel.python)
           /\ parsed.abi_tags = SeqToSet(wheel.abi)
           /\ parsed.platform_tags = SeqToSet(wheel.platform)


-----------------------------------------------------------------------------
(* Properties of apiproxy (SpecProxy)                                       *)

\* The registered routes that the resource of the event starts with.
RoutePrefixes ==
    {q \in DOMAIN routes : IsPrefixAt(handled.event.resource, 1, q)}

\* C13: dispatch hands the event to the function registered under the
\* longest registered route that its resource starts with, and answers 404
\* with the not-found message, calling nothing, when there is none.
C13_DispatchLongestPrefix ==
    (rev = "handler" /\ handled # NoHandled)
        => IF RoutePrefixes = {}
           THEN /\ ~handled.called
                /\ ~handled.escaped
                /\ handled.response.statusCode = 404
                /\ handled.response.message.text = NOT_FOUND_MSG
           ELSE /\ handled.route \in RoutePrefixes
                /\ \A q \in RoutePrefixes : Len(q) <= Len(handled.route)
                /\ handled.function = routes[handled.route]
                /\ handled.response.statusCode # 404

\* An event for /3/vend/{r+} while /, /3 and /3/vend are registered went
\* to the function of /3/vend.
C13_Witness ==
    /\ rev = "handler"
    /\ handled # NoHandled
    /\ handled.event.resource = RESOURCE_PROXY
    /\ {ROUTE_ROOT, ROUTE_3, ROUTE_3_VEND} \subseteq DOMAIN routes
    /\ handled.route = ROUTE_3_VEND
    /\ handled.called

\* The key of the greedy path parameter of the event, if its resource has one.
GreedyKeys == IF handled.event.resource = RESOURCE_PROXY THEN {KEY_R} ELSE {}

\* The keys of a dict of the event, none for None.
KeysOfDict(d) == IF d = NoDict THEN {} ELSE DOMAIN d.value

\* C14: the function is called with the pieces of the greedy path
\* parameter as positional arguments, and with one keyword argument for
\* each key of the body, the query parameters and the other path
\* parameters, whose value is the path's if it has the key, else the
\* query's, else the body's.
C14_KwargsMergeOrder ==
    (handled # NoHandled /\ handled.called)
        => LET e     == handled.event
               pkeys == KeysOfDict(e.pathParameters) \ GreedyKeys
               qkeys == KeysOfDict(e.queryStringParameters)
               bkeys == DOMAIN e.body.value
           IN  /\ DOMAIN handled.kwargs = pkeys \cup qkeys \cup bkeys
               /\ \A k \in DOMAIN handled.kwargs :
                      handled.kwargs[k] =
                          IF k \in pkeys THEN e.pathParameters.value[k]
                          ELSE IF k \in qkeys
                          THEN e.queryStringParameters.value[k]
                          ELSE e.body.value[k]
               /\ handled.args =
                      IF GreedyKeys = {} THEN <<>>
                      ELSE Split(e.pathParameters.value[KEY_R], SLASH)

\* The function was called for an event whose body, query and path all
\* have the key k: it got the path's value, and x and y as arguments.
C14_Witness ==
    /\ handled # NoHandled
    /\ handled.called
    /\ handled.event.resource = RESOURCE_PROXY
    /\ {KEY_K, KEY_J} \subseteq DOMAIN handled.event.body.value
    /\ KEY_K \in KeysOfDict(handled.event.queryStringParameters)
    /\ KEY_K \in KeysOfDict(handled.event.pathParameters)
    /\ handled.kwargs[KEY_K] = <<"p">>
    /\ handled.kwargs[KEY_J] = <<"b">>
    /\ handled.args = <<<<"x">>, <<"y">>>>

\* C15: an error other than APIError, raised while the request is parsed
\* or by the function, does not leave the entry point: the response has
\* status 500 and a message of the fixed preamble and the trace.
C15_UndeclaredErrorBecomes500 ==
    (handled # NoHandled /\ handled.error \notin {"none", "APIError"})
        => /\ ~handled.escaped
           /\ handled.response.statusCode = 500
           /\ handled.response.message.text \in {SERVER_ERROR_MSG, ERR_MSG}
           /\ handled.response.message.trace = handled.error

-----------------------------------------------------------------------------
(* Properties of parse_stack_outputs (SpecOutputs)                          *)

\* The positions of the outputs of the description that have the key k.
PositionsOf(k) ==
    {i \in 1..Len(descr.Outputs) : descr.Outputs[i].OutputKey = k}

\* C16: the mapping returned for a description has one entry for each
\* OutputKey among its outputs and no other entry, and the value of a key is
\* the OutputValue of the last output that has the key.
C16_OneEntryPerKeyLastWins ==
    (mapping # NoDescription)
        => /\ DOMAIN mapping.returned =
                  {descr.Outputs[i].OutputKey : i \in 1..Len(descr.Outputs)}
           /\ \A k \in DOMAIN mapping.returned :
                  LET lastpos == CHOOSE i \in PositionsOf(k) :
                                     \A h \in PositionsOf(k) : h <= i
                  IN  mapping.returned[k] = descr.Outputs[lastpos].OutputValue

\* A description with two outputs of the key Version and different values,
\* and one of another key, was parsed.
C16_Witness ==
    /\ mapping # NoDescription
    /\ Len(descr.Outputs) = 3
    /\ descr.Outputs[1] = Output("Version", <<"a">>)
    /\ descr.Outputs[2] = Output("BucketName", <<"a">>)
    /\ descr.Outputs[3] = Output("Version", <<"b">>)
    /\ mapping.returned = [Version |-> <<"b">>, BucketName |-> <<"a">>]

-----------------------------------------------------------------------------
(* Properties of the describe cache (SpecStack)                             *)

\* The live stack of the name reports the expected version or a later one.
LiveIsCurrent(name, expected) ==
    /\ live[name] # Absent
    /\ \E i \in 1..Len(live[name].Outputs) :
           /\ live[name].Outputs[i].OutputKey = "Version"
           /\ ~VersionLess(version_parse(live[name].Outputs[i].OutputValue),
                           expected)

\* A step in which describe_stack or check_stack runs for a name, directly
\* or as the first check of deployment() or service().
FirstLookup ==
    /\ last.pc \in {"idle", "service"}
    /\ last'.op \in {"describe_stack", "check_stack", "deployment", "service"}
    /\ last'.name \in StackNames

\* A lookup of a cached name makes no query, leaves the cache alone and
\* works on the cached description.
CachedLookupStep ==
    (FirstLookup /\ cache[last'.name] # NoEntry)
        => /\ queries' = 0
           /\ cache' = cache
           /\ last'.first \in {"current", "StackOutdated", "KeyError"}
           /\ last'.op \in {"describe_stack", "check_stack"}
                  /\ last'.result = "returned"
                  => last'.value = cache[last'.name]

\* A cached description goes away only when a deploy command of
\* deployment() or service() for its stack has succeeded; delete() and
\* everything else leave it.
CacheEntryStep ==
    \A n \in StackNames :
        (cache[n] # NoEntry /\ cache'[n] # cache[n])
            => /\ last.pc = "deploy"
               /\ last.name = n
               /\ last'.command = "ok"
               /\ cache'[n] = NoEntry

\* The check after a deploy queries the live stack; it does not raise
\* StackOutdated when the live stack is current, and when it succeeds the
\* operation has the outputs of the live stack, which is cached again.
RecheckStep ==
    (last.pc = "recheck")
        => /\ queries' = queries + 1
           /\ LiveIsCurrent(last.name, last.expected)
                  => last'.second \in {"current", "ClientError", "ValueError"}
           /\ last'.second = "current"
                  => /\ last'.result = "returned"
                     /\ last'.value = parse_stack_outputs(live[last.name])
                     /\ cache'[last.name] = live[last.name]

\* C17: a cached description is returned without a query by every later
\* describe_stack and check_stack of its name; only a successful deploy of
\* deployment() or service() removes it, delete() does not; the check after
\* a deploy queries the live stack, so it succeeds on a live stack that is
\* current although the cached description was outdated.
C17_CacheUntilDeploy ==
    [][CachedLookupStep /\ CacheEntryStep /\ RecheckStep]_vars

\* deployment() found the cached description outdated without a query,
\* deployed, and its re-check made the one query and returned the outputs
\* of the live stack.
C17_Witness ==
    /\ last.op = "deployment"
    /\ last.first = "StackOutdated"
    /\ last.command = "ok"
    /\ last.second = "current"
    /\ last.result = "returned"
    /\ queries = 1
    /\ LiveIsCurrent(last.name, last.expected)
    /\ cache[last.name] = live[last.name]

====
